---------------------------- MODULE Spec2Model ----------------------------
(***************************************************************************)
(* A model of the planar-geometry kernel of axiomatic-origami              *)
(* (src/origami.py): exact scalars, Vector, Line, LineSegment and the      *)
(* OrigamiPaper bookkeeping.                                               *)
(*                                                                         *)
(* Scalars are sympy exact numbers.  Every value the model feeds in is     *)
(* rational, so a scalar is a fraction <<n, d>> in lowest terms with       *)
(* d > 0.  A Vector is <<x, y>>, a Line is [p, d], a LineSegment is        *)
(* [p1, p2].  A call's outcome is a record [exc, type, point]: exc is ""   *)
(* when the call returns and the exception's name when it raises.          *)
(***************************************************************************)
EXTENDS Integers, Sequences, FiniteSets, TLC

VARIABLES points, linesegs, boundary, call, earlier

vars == <<points, linesegs, boundary, call, earlier>>

paper == <<points, linesegs, boundary>>

---------------------------------------------------------------------------
(* Bounds of the model. *)

\* most creases a run adds to the fresh paper
MaxFolds == 2

\* the kernel calls draw x coordinates from 0 .. KMaxX
KMaxX == 3

\* most creases on the paper before a pair of folds is made in both orders
OrderDepth == 1

---------------------------------------------------------------------------
(* Exact scalars: sympy.S(...) rationals. *)

Abs(n) == IF n < 0 THEN -n ELSE n

RECURSIVE GCD(_, _)
GCD(a, b) == IF b = 0 THEN a ELSE GCD(b, a % b)

\* n/d divided through by g, the denominator made positive
Reduce(n, d, g) ==
    IF d < 0 THEN <<(-n) \div g, (-d) \div g>> ELSE <<n \div g, d \div g>>

\* the fraction n/d in lowest terms, d # 0
Frac(n, d) == Reduce(n, d, GCD(Abs(n), Abs(d)))

RInt(n) == <<n, 1>>

RAdd(a, b) == Frac(a[1] * b[2] + b[1] * a[2], a[2] * b[2])
RSub(a, b) == Frac(a[1] * b[2] - b[1] * a[2], a[2] * b[2])
RMul(a, b) == Frac(a[1] * b[1], a[2] * b[2])
\* b # 0
RDiv(a, b) == Frac(a[1] * b[2], a[2] * b[1])
RLeq(a, b) == a[1] * b[2] <= b[1] * a[2]
RLess(a, b) == a[1] * b[2] < b[1] * a[2]
RIsZero(a) == a[1] = 0

\* sympy.N(a, accuracy) == sympy.N(b, accuracy): both sides rounded to 50
\* significant digits.  Fractions in lowest terms whose numerators and
\* denominators stay far below 10^25 round to the same value exactly when
\* they are the same fraction.
NEq(a, b) == Frac(a[1], a[2]) = Frac(b[1], b[2])

\* sympy.sqrt of a non-negative integer that is a perfect square
ISqrt(n) == CHOOSE k \in 0..n : k * k = n
IsSquare(n) == \E k \in 0..n : k * k = n
\* sympy.sqrt(a) stays rational exactly for these scalars
HasRationalSqrt(a) == a[1] >= 0 /\ IsSquare(a[1]) /\ IsSquare(a[2])
RSqrt(a) == <<ISqrt(a[1]), ISqrt(a[2])>>

---------------------------------------------------------------------------
(* Vector *)

Vec(x, y) == <<x, y>>

\* Vector(i, j) for integers
IVec(i, j) == <<RInt(i), RInt(j)>>

\* the absent point (Python None)
NoPoint == <<>>

VecEq(a, b) == NEq(a[1], b[1]) /\ NEq(a[2], b[2])

VAdd(a, b) == Vec(RAdd(a[1], b[1]), RAdd(a[2], b[2]))
VSub(a, b) == Vec(RSub(a[1], b[1]), RSub(a[2], b[2]))
\* Vector * scalar and scalar * Vector
VMul(a, c) == Vec(RMul(a[1], c), RMul(a[2], c))
\* Vector / scalar, c # 0: self * (1/other)
VDiv(a, c) == VMul(a, RDiv(RInt(1), c))

VSimplify(a) == Vec(Frac(a[1][1], a[1][2]), Frac(a[2][1], a[2][2]))

Dot(a, b) == RAdd(RMul(a[1], b[1]), RMul(a[2], b[2]))
Cross(a, b) == RSub(RMul(a[1], b[2]), RMul(a[2], b[1]))

NormSq(a) == Dot(a, a)
\* defined where the norm is rational
VNorm(a) == RSqrt(NormSq(a))
VNormalize(a) == VSimplify(VDiv(a, VNorm(a)))

\* rotate(sympy.pi/2): cos = 0 and sin = 1 exactly
RotateQuarter(a) ==
    Vec(RSub(RMul(RInt(0), a[1]), RMul(RInt(1), a[2])),
        RAdd(RMul(RInt(1), a[1]), RMul(RInt(0), a[2])))

ProjectOntoVector(a, other) == VMul(other, RDiv(Dot(a, other), Dot(other, other)))

MkLine(p, d) == [p |-> p, d |-> d]
MkSeg(p1, p2) == [p1 |-> p1, p2 |-> p2]

ProjectOntoLine(a, line) == VAdd(ProjectOntoVector(VSub(a, line.p), line.d), line.p)

LiesOnLine(a, line) == VecEq(a, ProjectOntoLine(a, line))

VReflectAcross(a, line) == VSub(VMul(ProjectOntoLine(a, line), RInt(2)), a)

LineThrough(seg) == MkLine(seg.p1, VSub(seg.p2, seg.p1))

\* 0 <= param <= 1
InUnitInterval(param) == RLeq(RInt(0), param) /\ RLeq(param, RInt(1))

\* param of lies_on_line_segment, for lseg_dir = lseg.p2 - lseg.p1
Param(a, lseg, lseg_dir) ==
    RDiv(Dot(VSub(a, lseg.p1), lseg_dir), Dot(lseg_dir, lseg_dir))

LiesOnLineSegment(a, lseg) ==
    /\ LiesOnLine(a, LineThrough(lseg))
    /\ InUnitInterval(Param(a, lseg, VSub(lseg.p2, lseg.p1)))

---------------------------------------------------------------------------
(* Outcomes of the intersection routines *)

Ret(type, point) == [exc |-> "", type |-> type, point |-> point]
Raise(exc) == [exc |-> exc, type |-> "", point |-> NoPoint]

---------------------------------------------------------------------------
(* Line *)

\* |cross| < 10^-50: for the model's fractions, cross = 0
ParallelTo(l1, l2) == RIsZero(Cross(l1.d, l2.d))

LineEq(l1, l2) == ParallelTo(l1, l2) /\ LiesOnLine(l1.p, l2)

LineSimplify(l) == MkLine(VSimplify(l.p), VSimplify(l.d))

LineReflectAcross(l, mirror) ==
    LET p1 == VReflectAcross(l.p, mirror)
        p2 == VReflectAcross(VAdd(l.p, l.d), mirror)
    IN  LineSimplify(MkLine(p1, VSub(p2, p1)))

\* A.LUsolve(b) for A = [[d1x, -d2x], [d1y, -d2y]], b = p2 - p1: the first
\* unknown of the non-singular 2x2 system, by Cramer's rule
IntersectsLine(self, line) ==
    IF LineEq(self, line) THEN Ret("infinite", NoPoint)
    ELSE IF ParallelTo(self, line) THEN Ret("none", NoPoint)
    ELSE LET b == VSub(line.p, self.p)
             s == RDiv(Cross(b, line.d), Cross(self.d, line.d))
         IN  Ret("single", VAdd(self.p, VMul(self.d, s)))

\* a variant without the lies_on_line_segment test of line 217
ClipToSegmentUnclipped(r, lineseg) ==
    IF r.type = "infinite" \/ r.type = "none" THEN Ret(r.type, NoPoint)
    ELSE Ret("single", r.point)

\* lines 214-220, for r the outcome of intersects_line
ClipToSegment(r, lineseg) ==
    IF r.type = "infinite" \/ r.type = "none" THEN Ret(r.type, NoPoint)
    ELSE IF LiesOnLineSegment(r.point, lineseg) THEN Ret("single", r.point)
    ELSE Ret("none", NoPoint)

LineIntersectsLineSegment(self, lineseg) ==
    ClipToSegment(IntersectsLine(self, LineThrough(lineseg)), lineseg)

---------------------------------------------------------------------------
(* LineSegment *)

\* a variant that compares the endpoints in order only
SegEqOrdered(s, o) == VecEq(s.p1, o.p1) /\ VecEq(s.p2, o.p2)

SegEq(s, o) ==
    \/ VecEq(s.p1, o.p1) /\ VecEq(s.p2, o.p2)
    \/ VecEq(s.p1, o.p2) /\ VecEq(s.p2, o.p1)

\* __hash__ returns hash(t) of an ordered pair t of the endpoints; the
\* model keeps the pair t, on which the built-in hash of a tuple of
\* distinct small vectors is injective
SegHash(s) ==
    IF RLess(s.p1[1], s.p2[1]) THEN <<s.p1, s.p2>> ELSE <<s.p2, s.p1>>

SegSimplify(s) == MkSeg(VSimplify(s.p1), VSimplify(s.p2))

SegReflectAcross(s, line) ==
    SegSimplify(MkSeg(VReflectAcross(s.p1, line), VReflectAcross(s.p2, line)))

SegIntersectsLine(seg, line) == LineIntersectsLineSegment(line, seg)

\* the name sekf of line 324 is bound nowhere: evaluating that operand
\* raises NameError
SekfOperand == Raise("NameError")

\* the last branch of the collinear case: a chain of "or", evaluated left
\* to right and stopped at the first true operand
NoEndpointCoincides(self, lseg) ==
    IF \/ LiesOnLineSegment(self.p1, lseg)
       \/ LiesOnLineSegment(self.p2, lseg)
       \/ LiesOnLineSegment(lseg.p1, self)
    THEN Ret("infinite", NoPoint)
    ELSE SekfOperand

\* a variant that tests only the first segment's other endpoint
SharedEndpointOneSided(shared, a, sa, b, sb) ==
    IF LiesOnLineSegment(a, sa)
    THEN Ret("infinite", NoPoint)
    ELSE Ret("single", shared)

SharedEndpoint(shared, a, sa, b, sb) ==
    IF LiesOnLineSegment(a, sa) \/ LiesOnLineSegment(b, sb)
    THEN Ret("infinite", NoPoint)
    ELSE Ret("single", shared)

\* lines 336-343, for r the outcome of intersects_line on the two lines
WithinBoth(r, self, lseg) ==
    IF r.type # "single" THEN Ret(r.type, NoPoint)
    ELSE IF LiesOnLineSegment(r.point, self) /\ LiesOnLineSegment(r.point, lseg)
         THEN Ret("single", r.point)
    ELSE Ret("none", NoPoint)

SegIntersectsLineSegment(self, lseg) ==
    IF ParallelTo(LineThrough(self), LineThrough(lseg))
    THEN IF LineEq(LineThrough(self), LineThrough(lseg))
         THEN IF VecEq(self.p1, lseg.p1)
                 THEN SharedEndpoint(self.p1, self.p2, lseg, lseg.p2, self)
              ELSE IF VecEq(self.p1, lseg.p2)
                 THEN SharedEndpoint(self.p1, self.p2, lseg, lseg.p1, self)
              ELSE IF VecEq(self.p2, lseg.p1)
                 THEN SharedEndpoint(self.p2, self.p1, lseg, lseg.p2, self)
              ELSE IF VecEq(self.p2, lseg.p2)
                 THEN SharedEndpoint(self.p2, self.p1, lseg, lseg.p1, self)
              ELSE NoEndpointCoincides(self, lseg)
         ELSE Ret("none", NoPoint)
    ELSE WithinBoth(IntersectsLine(LineThrough(self), LineThrough(lseg)),
                    self, lseg)

---------------------------------------------------------------------------
(* OrigamiPaper *)

\* "x in lst" and "x not in lst" compare with __eq__
VecIn(p, lst) == \E i \in 1..Len(lst) : VecEq(p, lst[i])
SegIn(s, lst) == \E i \in 1..Len(lst) : SegEq(s, lst[i])

\* __init__: the corners, and the edge from each corner to the next
InitPoints == <<IVec(0, 0), IVec(1, 0), IVec(1, 1), IVec(0, 1)>>

InitLinesegs ==
    [p \in 1..Len(InitPoints) |->
        MkSeg(InitPoints[p], InitPoints[(p % Len(InitPoints)) + 1])]

\* intersects_boundary: the loop over self.boundary from the i-th segment
\* on, with the points collected so far; BoundaryStep is one pass of the
\* loop body, for r the outcome of seg.intersects_line(line)
RECURSIVE BoundaryLoop(_, _, _, _)
RECURSIVE BoundaryStep(_, _, _, _, _)
BoundaryLoop(bnd, line, i, pts) ==
    IF i > Len(bnd) THEN [type |-> "single", points |-> pts]
    ELSE BoundaryStep(bnd, line, i, pts, SegIntersectsLine(bnd[i], line))

BoundaryStep(bnd, line, i, pts, r) ==
    IF r.type = "infinite" THEN [type |-> "infinite", points |-> <<>>]
    ELSE IF r.type = "none" THEN BoundaryLoop(bnd, line, i + 1, pts)
    ELSE IF VecIn(r.point, pts) THEN BoundaryLoop(bnd, line, i + 1, pts)
    ELSE BoundaryLoop(bnd, line, i + 1, Append(pts, r.point))

IntersectsBoundary(bnd, line) == BoundaryLoop(bnd, line, 1, <<>>)

\* add_all_intersections, lines 422-425: the loop over self.linesegs (the
\* new crease included) from the i-th segment on; CreaseStep is one pass of
\* the loop body, for r the outcome of seg.intersects_line_segment(lineseg).
\* An exception of the intersection test leaves the loop with the points
\* appended so far.
RECURSIVE CreaseLoop(_, _, _, _)
RECURSIVE CreaseStep(_, _, _, _, _)
CreaseLoop(segs, lineseg, i, pts) ==
    IF i > Len(segs) THEN [points |-> pts, exc |-> ""]
    ELSE CreaseStep(segs, lineseg, i, pts,
                    SegIntersectsLineSegment(segs[i], lineseg))

\* a variant with the membership test of line 424 inverted
CreaseStepSkipsNew(segs, lineseg, i, pts, r) ==
    IF r.exc # "" THEN [points |-> pts, exc |-> r.exc]
    ELSE IF r.type = "single" /\ VecIn(r.point, pts)
         THEN CreaseLoop(segs, lineseg, i + 1, Append(pts, r.point))
    ELSE CreaseLoop(segs, lineseg, i + 1, pts)

\* a variant whose loop ends after the first point it appends
CreaseStepStopsAtFirst(segs, lineseg, i, pts, r) ==
    IF r.exc # "" THEN [points |-> pts, exc |-> r.exc]
    ELSE IF r.type = "single" /\ ~VecIn(r.point, pts)
         THEN [points |-> Append(pts, r.point), exc |-> ""]
    ELSE CreaseLoop(segs, lineseg, i + 1, pts)

CreaseStep(segs, lineseg, i, pts, r) ==
    IF r.exc # "" THEN [points |-> pts, exc |-> r.exc]
    ELSE IF r.type = "single" /\ ~VecIn(r.point, pts)
         THEN CreaseLoop(segs, lineseg, i + 1, Append(pts, r.point))
    ELSE CreaseLoop(segs, lineseg, i + 1, pts)

\* the paper after a call: its points and linesegs, the exception the call
\* raised ("" if none), and the way the call ended: "rejected" (the return
\* of line 414), "duplicate" (the return of line 418), "added" (the crease
\* was appended at line 420)
Paper(pts, segs, exc, path) ==
    [points |-> pts, linesegs |-> segs, exc |-> exc, path |-> path]

\* the fold is rejected at line 413
Rejected(bt) == bt.type # "single" \/ Len(bt.points) < 2

\* lines 422-425, for lp the outcome of the loop over segs2, the list with
\* the crease in it
Inserted(segs2, lp) == Paper(lp.points, segs2, lp.exc, "added")

\* a variant whose loop runs over the boundary's segments only
InsertCreaseBoundaryOnly(pts, segs2, lineseg) ==
    Inserted(segs2, CreaseLoop(SubSeq(segs2, 1, Len(InitLinesegs)), lineseg, 1, pts))

\* a variant that collects the new crease's intersections into an empty list
InsertCreaseFreshPoints(pts, segs2, lineseg) ==
    Inserted(segs2, CreaseLoop(segs2, lineseg, 1, <<>>))

\* lines 420-425: the crease is appended, then the loop runs
InsertCrease(pts, segs2, lineseg) ==
    Inserted(segs2, CreaseLoop(segs2, lineseg, 1, pts))

\* a variant without the duplicate test of lines 417-418
AddCreaseUnchecked(pts, segs, lineseg) ==
    InsertCrease(pts, Append(segs, lineseg), lineseg)

\* a variant whose duplicate test looks in self.boundary (the first four
\* segments) instead of self.linesegs
AddCreaseAgainstBoundary(pts, segs, lineseg) ==
    IF SegIn(lineseg, SubSeq(segs, 1, Len(InitLinesegs)))
    THEN Paper(pts, segs, "", "duplicate")
    ELSE InsertCrease(pts, Append(segs, lineseg), lineseg)

\* lines 417-425
AddCrease(pts, segs, lineseg) ==
    IF SegIn(lineseg, segs) THEN Paper(pts, segs, "", "duplicate")
    ELSE InsertCrease(pts, Append(segs, lineseg), lineseg)

\* a variant with "and" for the "or" of line 413: len(None) raises
\* TypeError, and points[1] of a shorter list raises IndexError
ClipAndAddWithAnd(pts, segs, bt) ==
    IF bt.type # "single" THEN Paper(pts, segs, "TypeError", "raised")
    ELSE IF Len(bt.points) < 2 THEN Paper(pts, segs, "IndexError", "raised")
    ELSE AddCrease(pts, segs, MkSeg(bt.points[1], bt.points[2]))

\* lines 413-425, for bt the outcome of intersects_boundary
ClipAndAdd(pts, segs, bt) ==
    IF Rejected(bt) THEN Paper(pts, segs, "", "rejected")
    ELSE AddCrease(pts, segs, MkSeg(bt.points[1], bt.points[2]))

\* add_all_intersections
AddAll(pts, segs, bnd, line) == ClipAndAdd(pts, segs, IntersectsBoundary(bnd, line))

\* what an axiom method gives back: the fold lines it returns, or the
\* exception it raises
Folds(lines) == [exc |-> "", lines |-> lines]
Fails(exc) == [exc |-> exc, lines |-> <<>>]

PointsNotDistinct == "ValueError: Points are not distinct."
SegmentsNotDistinct == "ValueError: Line segments are not distinct."

Axiom1(p1, p2) ==
    IF VecEq(p1, p2) THEN Fails(PointsNotDistinct)
    ELSE Folds(<<MkLine(p1, VSub(p2, p1))>>)

Axiom2(p1, p2) ==
    IF VecEq(p1, p2) THEN Fails(PointsNotDistinct)
    ELSE Folds(<<MkLine(VDiv(VAdd(p1, p2), RInt(2)), RotateQuarter(VSub(p2, p1)))>>)

\* lines 455-458, for r the outcome of the reflected segment's test
Axiom3Aligned(r, fold_line) ==
    IF r.exc # "" THEN Fails(r.exc)
    ELSE IF r.type # "infinite" THEN Folds(<<>>)
    ELSE Folds(<<fold_line>>)

\* lines 454-458
Axiom3Check(lseg1, lseg2, fold_line) ==
    Axiom3Aligned(
        SegIntersectsLineSegment(SegReflectAcross(lseg1, fold_line), lseg2),
        fold_line)

\* lines 452-458: the two segments' lines are parallel
Axiom3Parallel(lseg1, lseg2) ==
    Axiom3Check(lseg1, lseg2,
        MkLine(VDiv(VAdd(lseg1.p1, lseg2.p1), RInt(2)), LineThrough(lseg1).d))

\* lines 468-472, for r1 and r2 the outcomes of the two reflected tests
\* (r1 is computed first: its exception wins)
Axiom3Both(r1, r2, fold1, fold2) ==
    IF r1.exc # "" THEN Fails(r1.exc)
    ELSE IF r2.exc # "" THEN Fails(r2.exc)
    ELSE Folds((IF r1.type = "infinite" THEN <<fold1>> ELSE <<>>)
               \o (IF r2.type = "infinite" THEN <<fold2>> ELSE <<>>))

\* lines 464-472
Axiom3Bisectors(lseg1, lseg2, fold1, fold2) ==
    Axiom3Both(
        SegIntersectsLineSegment(SegReflectAcross(lseg1, fold1), lseg2),
        SegIntersectsLineSegment(SegReflectAcross(lseg1, fold2), lseg2),
        fold1, fold2)

\* lines 461-465, for int_point the crossing of the two lines
Axiom3Around(lseg1, lseg2, int_point, u1, u2) ==
    Axiom3Bisectors(lseg1, lseg2,
        MkLine(int_point, VAdd(u1, u2)), MkLine(int_point, VSub(u1, u2)))

\* lines 459-472: the lines cross; modelled where both norms are rational
Axiom3Crossing(lseg1, lseg2) ==
    Axiom3Around(lseg1, lseg2,
        IntersectsLine(LineThrough(lseg1), LineThrough(lseg2)).point,
        VNormalize(LineThrough(lseg1).d),
        VNormalize(LineThrough(lseg2).d))

\* lines 450-472, for r the outcome of lseg1.intersects_line_segment(lseg2)
Axiom3Distinct(lseg1, lseg2, r) ==
    IF r.exc # "" THEN Fails(r.exc)
    ELSE IF r.type = "infinite" THEN Folds(<<>>)
    ELSE IF ParallelTo(LineThrough(lseg1), LineThrough(lseg2))
         THEN Axiom3Parallel(lseg1, lseg2)
    ELSE Axiom3Crossing(lseg1, lseg2)

Axiom3(lseg1, lseg2) ==
    IF SegEq(lseg1, lseg2) THEN Fails(SegmentsNotDistinct)
    ELSE Axiom3Distinct(lseg1, lseg2, SegIntersectsLineSegment(lseg1, lseg2))

Axiom4(p, seg) == Folds(<<MkLine(p, RotateQuarter(VSub(seg.p2, seg.p1)))>>)

---------------------------------------------------------------------------
(* The fold lines handed to add_all_intersections *)

Half == <<1, 2>>

FoldPoints ==
    {IVec(0, 0), Vec(Half, RInt(0)), Vec(Half, Half), IVec(0, 1), IVec(2, 0)}

FoldDirs ==
    {IVec(1, 0), IVec(0, 1), IVec(0, -1), IVec(1, 1), IVec(1, -1), IVec(1, 2)}

FoldLines == {MkLine(p, d) : p \in FoldPoints, d \in FoldDirs}

---------------------------------------------------------------------------
(* The paper as a state machine *)

\* the last call made: its name, arguments, the exception it raised ("" if
\* none), the values it returned, the way add_all_intersections ended, and
\* whether it repeats the fold line of the call before it under another
\* point/direction pair
Call(op, args, exc, ret, path, refold) ==
    [op |-> op, args |-> args, exc |-> exc, ret |-> ret, path |-> path,
     refold |-> refold]

NoCall == Call("", <<>>, "", <<>>, "", FALSE)

\* where a pair of consecutive calls started: the points and creases before
\* the first of the two, and the fold lines of the calls made so far
Earlier(pts, segs, lines) == [points |-> pts, linesegs |-> segs, lines |-> lines]

NoEarlier == Earlier(<<>>, <<>>, <<>>)

Init ==
    /\ points = InitPoints
    /\ linesegs = InitLinesegs
    /\ boundary = InitLinesegs
    /\ call = NoCall
    /\ earlier = NoEarlier

\* one call of add_all_intersections; a run makes calls until MaxFolds
\* creases have been added
AddAllIntersections(line) ==
    /\ Len(linesegs) < Len(boundary) + MaxFolds
    /\ \E r \in {AddAll(points, linesegs, boundary, line)} :
           /\ points' = r.points
           /\ linesegs' = r.linesegs
           /\ call' = Call("add_all_intersections", <<line>>, r.exc, <<>>, r.path,
                           /\ call.op = "add_all_intersections"
                           /\ call.args[1] # line
                           /\ LineEq(call.args[1], line))
    /\ UNCHANGED <<boundary, earlier>>

Next == \E line \in FoldLines : AddAllIntersections(line)

Spec == Init /\ [][Next]_vars

---------------------------------------------------------------------------
(* Properties of the paper *)

\* the step being taken is a call of add_all_intersections
Adding == call'.op = "add_all_intersections"

\* the boundary test of the fold line of the call being made; boundary is
\* read before the call
NextBoundaryTest == IntersectsBoundary(boundary, call'.args[1])

\* the fold line of the last call, and its boundary test
LastLine == call.args[1]
LastBoundaryTest == IntersectsBoundary(boundary, LastLine)

\* C1: both endpoints of every crease in linesegs are in points.
EndpointsRecorded ==
    \A i \in 1..Len(linesegs) :
        VecIn(linesegs[i].p1, points) /\ VecIn(linesegs[i].p2, points)

\* a fold was added whose crease ends at two points that are no corners
EndpointsRecordedWitness ==
    /\ call.path = "added"
    /\ ~VecIn(linesegs[Len(linesegs)].p1, InitPoints)
    /\ ~VecIn(linesegs[Len(linesegs)].p2, InitPoints)

\* C2: linesegs never holds two segments equal up to swapping endpoints.
NoDuplicateCreases ==
    \A i, j \in 1..Len(linesegs) :
        i # j =>
            /\ linesegs[i] # linesegs[j]
            /\ linesegs[i] # MkSeg(linesegs[j].p2, linesegs[j].p1)

\* a fold whose crease was already present has been turned down
NoDuplicateCreasesWitness ==
    /\ call.path = "duplicate"
    /\ Len(linesegs) > Len(boundary)
    /\ ~call.refold

\* C3: when add_all_intersections(l2) follows add_all_intersections(l1) and
\* l1, l2 are the same geometric line, the second call leaves points and
\* linesegs as the first call left them.
SameLineTwiceIsNoOp ==
    [][(/\ call.op = "add_all_intersections"
        /\ call'.op = "add_all_intersections"
        /\ \/ LineEq(call.args[1], call'.args[1])
           \/ LineEq(call'.args[1], call.args[1]))
       => (points' = points /\ linesegs' = linesegs)]_vars

\* the line of an added crease was handed in again under another point and
\* direction, and the call ended at the duplicate test
SameLineTwiceWitness ==
    /\ call.refold
    /\ call.path = "duplicate"
    /\ Len(linesegs) > Len(boundary)
    /\ SegIn(MkSeg(LastBoundaryTest.points[1], LastBoundaryTest.points[2]),
             SubSeq(linesegs, Len(boundary) + 1, Len(linesegs)))

\* C4: a call whose boundary test is not single with at least 2 points
\* returns without raising and leaves points, linesegs and boundary alone.
RejectedFoldIsNoOp ==
    [][(Adding /\ \E bt \in {NextBoundaryTest} : Rejected(bt))
       => (call'.exc = "" /\ UNCHANGED <<points, linesegs, boundary>>)]_vars

\* a line touching the square at one corner only has been turned down
RejectedFoldWitness ==
    /\ call.op = "add_all_intersections"
    /\ call.path = "rejected"
    /\ LastBoundaryTest.type = "single"
    /\ Len(LastBoundaryTest.points) = 1

\* the four corners and the four edges of the unit square
Corners == {IVec(0, 0), IVec(1, 0), IVec(1, 1), IVec(0, 1)}
Edges ==
    {MkSeg(IVec(0, 0), IVec(1, 0)), MkSeg(IVec(1, 0), IVec(1, 1)),
     MkSeg(IVec(1, 1), IVec(0, 1)), MkSeg(IVec(0, 1), IVec(0, 0))}

Range(f) == {f[i] : i \in DOMAIN f}

FreshPaper ==
    /\ Len(points) = 4 /\ Range(points) = Corners
    /\ Len(linesegs) = 4 /\ Range(linesegs) = Edges
    /\ Range(boundary) = Edges

\* a fold line with boundary test bt meets the boundary in 2 distinct
\* points and its clipped crease is not yet in linesegs
Accepted(bt) ==
    /\ bt.type = "single"
    /\ Len(bt.points) >= 2
    /\ bt.points[1] # bt.points[2]
    /\ \A i \in 1..Len(linesegs) :
           linesegs[i] \notin {MkSeg(bt.points[1], bt.points[2]),
                               MkSeg(bt.points[2], bt.points[1])}

\* C5: a fresh paper has exactly the 4 corners and the 4 boundary edges;
\* every accepted call yields exactly one more crease and zero or more
\* further points, and keeps every point and crease recorded before.
OneMoreCreasePerAcceptedFold ==
    /\ FreshPaper
    /\ [][(Adding /\ \E bt \in {NextBoundaryTest} : Accepted(bt))
           => /\ Len(linesegs') = Len(linesegs) + 1
              /\ Len(points') >= Len(points)
              /\ \A i \in 1..Len(points) : points[i] \in Range(points')
              /\ \A i \in 1..Len(linesegs) : linesegs[i] \in Range(linesegs')]_vars

\* a second fold was accepted and crossed the first inside the square:
\* it added its two ends and the crossing
OneMoreCreaseWitness ==
    /\ call.path = "added"
    /\ Len(linesegs) = Len(boundary) + 2
    /\ Len(points) >= 9

\* p lies on one of the 4 boundary segments
OnBoundary(p) == \E j \in 1..Len(boundary) : LiesOnLineSegment(p, boundary[j])

\* C6: each endpoint of every crease lies on at least one of the 4
\* boundary segments of the unit square.
CreasesWithinBoundary ==
    /\ Range(boundary) = Edges
    /\ \A i \in 1..Len(linesegs) :
           OnBoundary(linesegs[i].p1) /\ OnBoundary(linesegs[i].p2)

\* a crease was added whose line leaves the square: it crosses the line of
\* a boundary edge beyond that edge's ends
CreasesWithinBoundaryWitness ==
    /\ call.path = "added"
    /\ \E j \in 1..Len(boundary) :
           /\ IntersectsLine(LastLine, LineThrough(boundary[j])).type = "single"
           /\ SegIntersectsLine(boundary[j], LastLine).type = "none"

\* C13: for every pair of creases in linesegs whose segment-segment
\* intersection is single with point p, p is in points (the recorded points
\* are closed under pairwise crease intersection).
IntersectionsRecorded ==
    \A i, j \in 1..Len(linesegs) :
        \E r \in {SegIntersectsLineSegment(linesegs[i], linesegs[j])} :
            (r.exc = "" /\ r.type = "single") => VecIn(r.point, points)

\* two added creases cross at a point inside the square, and it is recorded
IntersectionsRecordedWitness ==
    \E i, j \in (Len(boundary) + 1)..Len(linesegs) :
        \E r \in {SegIntersectsLineSegment(linesegs[i], linesegs[j])} :
            /\ r.exc = "" /\ r.type = "single"
            /\ ~OnBoundary(r.point)
            /\ VecIn(r.point, points)

---------------------------------------------------------------------------
(* Two folds in a row: a run adds at most OrderDepth creases to the fresh  *)
(* paper, then makes two calls of add_all_intersections; earlier keeps the *)
(* paper the two calls started from.                                       *)

\* the fold lines of the two calls
OrderPoints == {IVec(0, 0), Vec(Half, RInt(0)), Vec(Half, Half)}

OrderDirs == {IVec(0, 1), IVec(1, 1), IVec(1, -1), IVec(1, 2)}

OrderLines == {MkLine(p, d) : p \in OrderPoints, d \in OrderDirs}

\* a call of add_all_intersections before the pair
Prepare(line) ==
    /\ earlier = NoEarlier
    /\ Len(linesegs) < Len(boundary) + OrderDepth
    /\ \E r \in {AddAll(points, linesegs, boundary, line)} :
           /\ points' = r.points
           /\ linesegs' = r.linesegs
    /\ UNCHANGED <<boundary, call, earlier>>

\* the first call of the pair
FirstOfTwo(line) ==
    /\ earlier = NoEarlier
    /\ \E r \in {AddAll(points, linesegs, boundary, line)} :
           /\ points' = r.points
           /\ linesegs' = r.linesegs
           /\ call' = Call("add_all_intersections", <<line>>, r.exc, <<>>, r.path,
                           FALSE)
    /\ earlier' = Earlier(points, linesegs, <<line>>)
    /\ UNCHANGED boundary

\* the second call of the pair
SecondOfTwo(line) ==
    /\ Len(earlier.lines) = 1
    /\ \E r \in {AddAll(points, linesegs, boundary, line)} :
           /\ points' = r.points
           /\ linesegs' = r.linesegs
           /\ call' = Call("add_all_intersections", <<line>>, r.exc, <<>>, r.path,
                           call.args[1] # line /\ LineEq(call.args[1], line))
    /\ earlier' = Earlier(earlier.points, earlier.linesegs, Append(earlier.lines, line))
    /\ UNCHANGED boundary

OrderNext ==
    \/ \E line \in FoldLines : Prepare(line)
    \/ \E line \in OrderLines : FirstOfTwo(line)
    \/ \E line \in OrderLines : SecondOfTwo(line)

OrderSpec == Init /\ [][OrderNext]_vars

\* a list of creases as a set, each crease as the set of its endpoints
CreaseSet(segs) == {{segs[i].p1, segs[i].p2} : i \in DOMAIN segs}

\* the two lists of points and the two lists of creases hold the same values
SamePaper(pts1, segs1, pts2, segs2) ==
    /\ Range(pts1) = Range(pts2)
    /\ CreaseSet(segs1) = CreaseSet(segs2)

\* the paper after one more call, for first the paper a call left
CalledAfter(first, line) == AddAll(first.points, first.linesegs, boundary, line)

\* the paper after add_all_intersections(b) then add_all_intersections(a),
\* started from the points pts and the creases segs
OtherOrder(pts, segs, a, b) == CalledAfter(AddAll(pts, segs, boundary, b), a)

\* C14: crease insertion is order-independent: from any reachable paper and
\* for any two fold lines a and b, add_all_intersections(a) then
\* add_all_intersections(b) gives the same set of creases (compared without
\* regard to endpoint order) and the same set of points as
\* add_all_intersections(b) then add_all_intersections(a).
InsertionOrderIndependent ==
    Len(earlier.lines) = 2
    => \E r \in {OtherOrder(earlier.points, earlier.linesegs,
                            earlier.lines[1], earlier.lines[2])} :
           /\ r.exc = call.exc
           /\ SamePaper(points, linesegs, r.points, r.linesegs)

\* two distinct fold lines were both added as creases, and the other order
\* of the two calls leaves the lists in another order
InsertionOrderWitness ==
    /\ Len(earlier.lines) = 2
    /\ Len(linesegs) = Len(earlier.linesegs) + 2
    /\ \E r \in {OtherOrder(earlier.points, earlier.linesegs,
                             earlier.lines[1], earlier.lines[2])} :
           /\ r.linesegs # linesegs
           /\ r.points # points

---------------------------------------------------------------------------
(* The kernel's operations called on their own, once each, beside a fresh  *)
(* paper: the arguments are drawn from a small grid.                       *)

KPoints == {IVec(x, y) : x \in 0..KMaxX, y \in {0, 1}}

KSegs == {MkSeg(v[1], v[2]) : v \in {w \in KPoints \X KPoints : w[1] # w[2]}}

\* normalize() stays within the rationals for this segment's direction
RationalNorm(seg) == HasRationalSqrt(NormSq(LineThrough(seg).d))

\* the segment pairs axiom_3 is called on
Axiom3Args ==
    {v \in KSegs \X KSegs :
        \/ ParallelTo(LineThrough(v[1]), LineThrough(v[2]))
        \/ RationalNorm(v[1]) /\ RationalNorm(v[2])}

\* each call below leaves the paper alone and records what it gave back
Axiom1Call(p1, p2) ==
    /\ call = NoCall
    /\ \E r \in {Axiom1(p1, p2)} :
           call' = Call("axiom_1", <<p1, p2>>, r.exc, r.lines, "", FALSE)
    /\ UNCHANGED <<paper, earlier>>

Axiom2Call(p1, p2) ==
    /\ call = NoCall
    /\ \E r \in {Axiom2(p1, p2)} :
           call' = Call("axiom_2", <<p1, p2>>, r.exc, r.lines, "", FALSE)
    /\ UNCHANGED <<paper, earlier>>

Axiom3Call(lseg1, lseg2) ==
    /\ call = NoCall
    /\ \E r \in {Axiom3(lseg1, lseg2)} :
           call' = Call("axiom_3", <<lseg1, lseg2>>, r.exc, r.lines, "", FALSE)
    /\ UNCHANGED <<paper, earlier>>

Axiom4Call(p, seg) ==
    /\ call = NoCall
    /\ \E r \in {Axiom4(p, seg)} :
           call' = Call("axiom_4", <<p, seg>>, r.exc, r.lines, "", FALSE)
    /\ UNCHANGED <<paper, earlier>>

IntersectsLineSegmentCall(self, lseg) ==
    /\ call = NoCall
    /\ \E r \in {SegIntersectsLineSegment(self, lseg)} :
           call' = Call("intersects_line_segment", <<self, lseg>>, r.exc,
                        IF r.exc = "" THEN <<r.type, r.point>> ELSE <<>>, "", FALSE)
    /\ UNCHANGED <<paper, earlier>>

HashCall(seg) ==
    /\ call = NoCall
    /\ call' = Call("__hash__", <<seg>>, "", <<SegHash(seg)>>, "", FALSE)
    /\ UNCHANGED <<paper, earlier>>

\* intersects_boundary called on the fresh paper; a returned None is
\* recorded as the empty list
IntersectsBoundaryCall(line) ==
    /\ call = NoCall
    /\ \E bt \in {IntersectsBoundary(boundary, line)} :
           call' = Call("intersects_boundary", <<line>>, "",
                        <<bt.type, bt.points>>, "", FALSE)
    /\ UNCHANGED <<paper, earlier>>

KernelNext ==
    \/ \E p1, p2 \in KPoints : Axiom1Call(p1, p2)
    \/ \E p1, p2 \in KPoints : Axiom2Call(p1, p2)
    \/ \E v \in Axiom3Args : Axiom3Call(v[1], v[2])
    \/ \E p \in KPoints, seg \in KSegs : Axiom4Call(p, seg)
    \/ \E self, lseg \in KSegs : IntersectsLineSegmentCall(self, lseg)
    \/ \E seg \in KSegs : HashCall(seg)
    \/ \E line \in FoldLines : IntersectsBoundaryCall(line)

KernelSpec == Init /\ [][KernelNext]_vars


---------------------------------------------------------------------------
(* Properties of the kernel calls *)

\* the segment with its endpoints swapped
Swapped(seg) == MkSeg(seg.p2, seg.p1)

PaperUntouched ==
    points = InitPoints /\ linesegs = InitLinesegs /\ boundary = InitLinesegs

\* C7: axiom_1 and axiom_2 fail with the distinct-points error when
\* p1 == p2, axiom_3 fails with the distinct-segments error when seg2 is
\* seg1 or seg1 with its endpoints swapped; no fold line is returned and the
\* paper is unchanged.
DistinctArgumentsRequired ==
    /\ (call.op \in {"axiom_1", "axiom_2"} /\ call.args[1] = call.args[2])
       => (call.exc = PointsNotDistinct /\ call.ret = <<>> /\ PaperUntouched)
    /\ (call.op = "axiom_3" /\ call.args[2] \in {call.args[1], Swapped(call.args[1])})
       => (call.exc = SegmentsNotDistinct /\ call.ret = <<>> /\ PaperUntouched)

\* axiom_3 was called on a segment and the same segment swapped, and failed
DistinctArgumentsWitness ==
    /\ call.op = "axiom_3"
    /\ call.args[2] = Swapped(call.args[1])
    /\ call.exc = SegmentsNotDistinct

\* the two segments lie on one line
Collinear(a, b) == LineEq(LineThrough(a), LineThrough(b))

\* no endpoint of a is an endpoint of b
NoSharedEndpoint(a, b) == {a.p1, a.p2} \cap {b.p1, b.p2} = {}

\* some endpoint of either segment lies within the other
Overlapping(a, b) ==
    \/ LiesOnLineSegment(a.p1, b) \/ LiesOnLineSegment(a.p2, b)
    \/ LiesOnLineSegment(b.p1, a) \/ LiesOnLineSegment(b.p2, a)

\* C8: for collinear segments none of whose endpoints coincide,
\* intersects_line_segment returns none when they do not overlap and
\* infinite when some endpoint of either lies within the other.
CollinearNoneOrInfinite ==
    (/\ call.op = "intersects_line_segment"
     /\ Collinear(call.args[1], call.args[2])
     /\ NoSharedEndpoint(call.args[1], call.args[2]))
    => /\ call.exc = ""
       /\ call.ret[1] = IF Overlapping(call.args[1], call.args[2])
                        THEN "infinite" ELSE "none"

\* the mid-line fold of two parallel segments: through the midpoint of
\* seg1.p1 and seg2.p1, along seg1's direction
MidLine(seg1, seg2) ==
    MkLine(VDiv(VAdd(seg1.p1, seg2.p1), RInt(2)), VSub(seg1.p2, seg1.p1))

\* seg1 reflected across the mid-line overlaps seg2 along more than a point
AlignsWhenFolded(seg1, seg2) ==
    /\ Collinear(SegReflectAcross(seg1, MidLine(seg1, seg2)), seg2)
    /\ \E p \in {SegReflectAcross(seg1, MidLine(seg1, seg2)).p1,
                 SegReflectAcross(seg1, MidLine(seg1, seg2)).p2,
                 seg2.p1, seg2.p2} :
           /\ LiesOnLineSegment(p, SegReflectAcross(seg1, MidLine(seg1, seg2)))
           /\ LiesOnLineSegment(p, seg2)
           /\ \E q \in {SegReflectAcross(seg1, MidLine(seg1, seg2)).p1,
                        SegReflectAcross(seg1, MidLine(seg1, seg2)).p2,
                        seg2.p1, seg2.p2} :
                  /\ q # p
                  /\ LiesOnLineSegment(q, SegReflectAcross(seg1, MidLine(seg1, seg2)))
                  /\ LiesOnLineSegment(q, seg2)

\* C9: for two distinct segments on parallel lines, axiom_3 returns exactly
\* the mid-line fold when seg1 reflected across it overlaps seg2 infinitely,
\* and otherwise the empty list; it never raises.
ParallelFoldOrNothing ==
    (/\ call.op = "axiom_3"
     /\ call.args[2] \notin {call.args[1], Swapped(call.args[1])}
     /\ ParallelTo(LineThrough(call.args[1]), LineThrough(call.args[2])))
    => /\ call.exc = ""
       /\ call.ret = IF AlignsWhenFolded(call.args[1], call.args[2])
                     THEN <<MidLine(call.args[1], call.args[2])>> ELSE <<>>

\* C10: LineSegment(p1, p2) and LineSegment(p2, p1) are equal and have the
\* same hash.
HashIgnoresEndpointOrder ==
    call.op = "__hash__"
    => /\ SegEq(call.args[1], Swapped(call.args[1]))
       /\ call.ret[1] = SegHash(Swapped(call.args[1]))

\* the line runs along one of the boundary's edges
OverlapsAnEdge(line) ==
    \E j \in 1..Len(boundary) : LineEq(line, LineThrough(boundary[j]))

\* the line has no point in common with any edge of the boundary
MissesTheBoundary(line) ==
    \A j \in 1..Len(boundary) :
        LineIntersectsLineSegment(line, boundary[j]).type = "none"

\* C11: intersects_boundary(line) returns type infinite when the line
\* overlaps a boundary edge, type none when the line does not intersect the
\* boundary, and otherwise type single with one or two distinct points.
BoundaryTestTypes ==
    call.op = "intersects_boundary"
    => IF OverlapsAnEdge(call.args[1]) THEN call.ret[1] = "infinite"
       ELSE IF MissesTheBoundary(call.args[1]) THEN call.ret[1] = "none"
       ELSE /\ call.ret[1] = "single"
            /\ Len(call.ret[2]) \in {1, 2}
            /\ \A i, j \in 1..Len(call.ret[2]) :
                   i # j => call.ret[2][i] # call.ret[2][j]

\* the endpoint of seg that is not p
OtherEnd(seg, p) == IF seg.p1 = p THEN seg.p2 ELSE seg.p1

\* C12: for two collinear segments that share an endpoint,
\* intersects_line_segment returns single with the shared point when neither
\* segment's other endpoint lies within the other segment, and infinite when
\* the other endpoint of either lies within the other; in each of the four
\* cases p1 == other.p1, p1 == other.p2, p2 == other.p1, p2 == other.p2.
SharedEndpointSingleOrInfinite ==
    (/\ call.op = "intersects_line_segment"
     /\ Collinear(call.args[1], call.args[2]))
    => \A x \in {call.args[1].p1, call.args[1].p2} :
         \A y \in {call.args[2].p1, call.args[2].p2} :
           x = y
           => /\ call.exc = ""
              /\ IF \/ LiesOnLineSegment(OtherEnd(call.args[1], x), call.args[2])
                    \/ LiesOnLineSegment(OtherEnd(call.args[2], y), call.args[1])
                 THEN call.ret[1] = "infinite"
                 ELSE call.ret = <<"single", x>>

\* two collinear segments that meet end to start gave the shared point
SharedEndpointSingleWitness ==
    /\ call.op = "intersects_line_segment"
    /\ Collinear(call.args[1], call.args[2])
    /\ call.args[1].p2 = call.args[2].p1
    /\ call.args[1].p1 # call.args[2].p2
    /\ call.ret = <<"single", call.args[1].p2>>

===========================================================================
